---- MODULE Spec2Model ----
(***************************************************************************)
(* Model of app.py: a wallet table (WALLETS), a hash-linked chain of       *)
(* blocks (CHAIN), the pending block (BLOCK) and the request handlers that *)
(* change or read them.                                                    *)
(*                                                                         *)
(* Strings that get hashed are sequences of character codes; SHA-256 is    *)
(* modelled by a 16-bit multiplicative digest rendered as 16 binary        *)
(* digits, so that a prefix of 4 zero characters is met by 1 guess in 16.  *)
(***************************************************************************)
EXTENDS Integers, Sequences, FiniteSets, TLC

VARIABLES WALLETS, CHAIN, BLOCK, aliased, disk, response, mining

vars == <<WALLETS, CHAIN, BLOCK, aliased, disk, response, mining>>

-----------------------------------------------------------------------------
(* Bounds of the model *)

\* most blocks CHAIN.blocks may hold
MaxChain == 2
\* most transactions (reward transactions included) one pending block holds;
\* a submission leaves room for one reward transaction
MaxBlockTxs == 3
\* last proof the search of proof_of_work tries
MaxProof == 63

-----------------------------------------------------------------------------
(* Character codes: 0..9 are the decimal digits (0 and 1 also the digits of *)
(* a digest); the other characters that occur in the hashed strings follow. *)

Ch(c) ==
    CASE c = "-" -> 16 [] c = "N" -> 17 [] c = "o" -> 18 [] c = "n" -> 19
      [] c = "e" -> 20 [] c = "u" -> 21 [] c = "l" -> 22 [] c = "," -> 23
      [] c = "q" -> 24 [] c = "[" -> 25 [] c = "]" -> 26 [] c = "d" -> 27
      [] c = "a" -> 10 [] c = "b" -> 11 [] c = "c" -> 12 [] c = "x" -> 15

ChMinus == Ch("-")
ChN == Ch("N")
Cho == Ch("o")
Chn == Ch("n")
Che == Ch("e")
Chu == Ch("u")
Chl == Ch("l")
ChComma == Ch(",")
ChQuote == Ch("q")
ChOpen == Ch("[")
ChClose == Ch("]")
Chd == Ch("d")

RECURSIVE Digits(_)
Digits(n) == IF n < 10 THEN <<n>> ELSE Digits(n \div 10) \o <<n % 10>>

\* str(n) of a Python int
Str(n) == IF n < 0 THEN <<ChMinus>> \o Digits(0 - n) ELSE Digits(n)

\* An Optional[int] is <<>> (None) or <<n>>.
None == <<>>

\* f'{x}' of an Optional[int]: 'None' or the decimal digits
Format(opt) == IF opt = None THEN <<ChN, Cho, Chn, Che>> ELSE Str(opt[1])

-----------------------------------------------------------------------------
(* hashlib.sha256(...).hexdigest(), scaled to a 16-bit digest that is      *)
(* rendered as DigestLen binary digits, most significant first             *)

HashMod == 65536
HashMul == 31421
HashInit == 4919

\* one byte absorbed into the digest state
Mix(h, byte) == (h * HashMul + byte + 1) % HashMod

\* the digest state after bytes[lo..hi], absorbed in order
RECURSIVE Absorb(_, _, _, _)
Absorb(h, bytes, lo, hi) ==
    IF lo > hi THEN h
    ELSE IF lo = hi THEN Mix(h, bytes[lo])
    ELSE LET mid == (lo + hi) \div 2
             left == Absorb(h, bytes, lo, mid)
         IN  \* the left half is absorbed first (a digest state is never negative)
             IF left < 0 THEN left ELSE Absorb(left, bytes, mid + 1, hi)

DigestLen == 16

sha256_hexdigest(bytes) ==
    LET h == Absorb(HashInit, bytes, 1, Len(bytes))
    IN  [i \in 1..DigestLen |-> (h \div (2 ^ (DigestLen - i))) % 2]

-----------------------------------------------------------------------------
(* Wallet identifiers *)

node_wallet_index == "node"

WalletChars(id) ==
    CASE id = "A"    -> <<Ch("a"), 1>>
      [] id = "B"    -> <<Ch("b"), 2>>
      [] id = "X"    -> <<Ch("x"), 3>>
      [] id = "node" -> <<Chn, Cho, Chd, Che>>
      [] id = "none" -> <<Chn, Cho, Chn, Che>>

\* hashlib.sha256(username.encode()).hexdigest() as a wallet index
UsernameIndex(username) ==
    CASE username = "alice"  -> "A"
      [] username = "bob"    -> "B"
      [] username = "xavier" -> "X"

-----------------------------------------------------------------------------
(* Wallets *)

find_by_index(ws, wallet_index) ==
    IF wallet_index \in DOMAIN ws.wallets THEN <<ws.wallets[wallet_index]>> ELSE None

\* add_wallet without the test of lines 26-27
add_wallet_overwrite(ws, index, value) ==
    [wallets |-> [id \in DOMAIN ws.wallets \cup {index} |->
                     IF id = index THEN value ELSE ws.wallets[id]],
     length |-> ws.length + 1]

add_wallet(ws, index, value) ==
    IF find_by_index(ws, index) # None THEN ws
    ELSE [wallets |-> ws.wallets @@ (index :> value), length |-> ws.length + 1]

-----------------------------------------------------------------------------
(* Transaction.  debits/credits count the executions of lines 51 and 52 on  *)
(* the transaction object; they are not fields of the program's object.     *)

Transaction(amount, index, recipient, sender) ==
    [amount |-> amount, index |-> index, recipient |-> recipient,
     sender |-> sender, debits |-> 0, credits |-> 0]

\* commit without line 51: the recipient is credited, no sender is debited
commit_credit_only(t, ws) ==
    IF find_by_index(ws, t.recipient) = None
    THEN [ws |-> ws, t |-> t, raised |-> TRUE]
    ELSE [ws |-> [ws EXCEPT !.wallets[t.recipient] = @ + t.amount],
          t |-> [t EXCEPT !.credits = @ + 1],
          raised |-> FALSE]

\* commit with the signs of lines 51 and 52 exchanged
commit_reversed(t, ws) ==
    IF find_by_index(ws, t.sender) = None \/ find_by_index(ws, t.recipient) = None
    THEN [ws |-> ws, t |-> t, raised |-> TRUE]
    ELSE [ws |-> [ws EXCEPT !.wallets[t.sender] = @ + t.amount,
                            !.wallets[t.recipient] = @ - t.amount],
          t |-> [t EXCEPT !.debits = @ + 1, !.credits = @ + 1],
          raised |-> FALSE]

\* Transaction.commit on ledger ws: the ledger and the transaction after it,
\* and whether it raised (AttributeError on a None wallet).
commit(t, ws) ==
    IF find_by_index(ws, t.sender) = None
    THEN [ws |-> ws, t |-> t, raised |-> TRUE]
    ELSE LET w1 == [ws EXCEPT !.wallets[t.sender] = @ - t.amount]
             t1 == [t EXCEPT !.debits = @ + 1]
         IN  IF find_by_index(w1, t.recipient) = None
             THEN [ws |-> w1, t |-> t1, raised |-> TRUE]
             ELSE [ws |-> [w1 EXCEPT !.wallets[t.recipient] = @ + t.amount],
                   t |-> [t1 EXCEPT !.credits = @ + 1],
                   raised |-> FALSE]

-----------------------------------------------------------------------------
(* Block *)

JsonTransaction(t) ==
    Str(t.amount) \o <<ChComma>> \o Str(t.index) \o <<ChComma, ChQuote>>
    \o WalletChars(t.recipient) \o <<ChQuote, ChComma, ChQuote>>
    \o WalletChars(t.sender) \o <<ChQuote>>

RECURSIVE JsonTransactions(_, _)
JsonTransactions(txs, i) ==
    IF i > Len(txs) THEN <<>>
    ELSE <<ChOpen>> \o JsonTransaction(txs[i]) \o <<ChClose>>
         \o JsonTransactions(txs, i + 1)

\* Block.json(sort_keys=True): the values in key order
\* index, length, previous_hash, proof, timestamp, transactions
BlockJson(b) ==
    Str(b.index) \o <<ChComma>> \o Str(b.length) \o <<ChComma, ChQuote>>
    \o b.previous_hash \o <<ChQuote, ChComma>>
    \o (IF b.proof = None THEN <<Chn, Chu, Chl, Chl>> ELSE Str(b.proof[1]))
    \o <<ChComma, ChQuote>> \o Str(b.timestamp) \o <<ChQuote, ChComma, ChOpen>>
    \o JsonTransactions(b.transactions, 1) \o <<ChClose>>

hash(b) == sha256_hexdigest(BlockJson(b))

\* Block.close on ledger ws: commits in order, stops at the first raise.
RECURSIVE close(_, _, _)
close(txs, ws, i) ==
    IF i > Len(txs) THEN [ws |-> ws, txs |-> txs, raised |-> FALSE]
    ELSE LET r == commit(txs[i], ws)
             txs1 == [txs EXCEPT ![i] = r.t]
         IN  IF r.raised THEN [ws |-> r.ws, txs |-> txs1, raised |-> TRUE]
             ELSE close(txs1, r.ws, i + 1)

-----------------------------------------------------------------------------
(* Chain *)

last_block(blocks) == blocks[Len(blocks)]

PrefixLen == 4

validate_proof(prev_proof, current_proof, prev_hash) ==
    LET guess == Format(prev_proof) \o Format(current_proof) \o prev_hash
        guess_hash == sha256_hexdigest(guess)
    IN  SubSeq(guess_hash, 1, PrefixLen) = [i \in 1..PrefixLen |-> 0]

\* The loop of lines 93-96 over proof = lo..hi: the first proof, counting up
\* from lo, that validate_proof accepts, as <<proof>>; <<>> when the loop is
\* still running after hi.
RECURSIVE Search(_, _, _, _)
Search(last_proof, last_hash, lo, hi) ==
    IF lo = hi
    THEN IF validate_proof(last_proof, <<lo>>, last_hash) THEN <<lo>> ELSE <<>>
    ELSE LET mid == (lo + hi) \div 2
             first == Search(last_proof, last_hash, lo, mid)
         IN  IF first # <<>> THEN first
             ELSE Search(last_proof, last_hash, mid + 1, hi)

\* proof_of_work searching against the tail's stored previous_hash
proof_of_work_stale(blocks) ==
    Search(last_block(blocks).proof, last_block(blocks).previous_hash, 0, MaxProof)

\* proof_of_work with line 93 starting the count at 1
proof_of_work_from_one(blocks) ==
    Search(last_block(blocks).proof, hash(last_block(blocks)), 1, MaxProof)

proof_of_work(blocks) ==
    Search(last_block(blocks).proof, hash(last_block(blocks)), 0, MaxProof)

RECURSIVE ValidateFrom(_, _)
ValidateFrom(blocks, i) ==
    IF i > Len(blocks) THEN TRUE
    ELSE IF blocks[i].previous_hash # hash(blocks[i - 1]) THEN FALSE
    ELSE IF ~validate_proof(blocks[i - 1].proof, blocks[i].proof, hash(blocks[i - 1]))
         THEN FALSE
    ELSE ValidateFrom(blocks, i + 1)

\* validate_chain without the test of lines 121-122
validate_chain_hash_only(blocks) ==
    \A i \in 2..Len(blocks) : blocks[i].previous_hash = hash(blocks[i - 1])

\* validate_chain without its tests
validate_chain_unchecked(blocks) == TRUE

validate_chain(blocks) == ValidateFrom(blocks, 2)

\* line 116: blocks[0] of a chain without blocks raises IndexError
validate_chain_raises(blocks) == blocks = <<>>

-----------------------------------------------------------------------------
(* Inputs *)

\* datetime.now() at the creation of a pending block: the clock of the model
\* ticks once for every block of the chain
Now(chain) == chain.length

\* database/wallets.json as loaded at line 35
WalletSnapshots ==
    { [wallets |-> ("A" :> 2) @@ ("B" :> 0), length |-> 2],
      [wallets |-> ("A" :> 2) @@ ("B" :> 0) @@ ("none" :> 0), length |-> 3] }

\* the block database/blockchain.json holds at line 128
Genesis ==
    [index |-> 0, length |-> 0, previous_hash |-> <<Ch("a"), Ch("b"), Ch("c")>>,
     proof |-> <<100>>, timestamp |-> 0, transactions |-> <<>>]

\* request bodies of POST /api/chain/blocks/transactions
\* <<sender, recipient, amount>>; wallet X does not exist at startup
Transfers == { <<"A", "B", 3>>, <<"A", "X", 1>> }
CallerIndexes == {0, 5}

\* query parameters of POST /api/wallets
Usernames == {"alice", "xavier"}
Values == {4}

\* path parameter id of the two block accessors, around the ends of a list
\* of n blocks
BlockIds(n) == {0 - 1, n, n + 1}

-----------------------------------------------------------------------------
(* State *)

\* the Block(...) constructed at lines 130-137 and 244-251
NewBlock(index, previous_hash, timestamp) ==
    [index |-> index, length |-> 0, previous_hash |-> previous_hash,
     proof |-> None, timestamp |-> timestamp, transactions |-> <<>>]

\* CHAIN.blocks when the object BLOCK, shared with the positions `al`, is b
Shared(blocks, al, b) ==
    [i \in 1..Len(blocks) |-> IF i \in al THEN b ELSE blocks[i]]

Response(op, status, item) == [op |-> op, status |-> status, item |-> item]

\* where a mine() request stands: no request is running (at "idle"), or the
\* statement it executes next and the position `i` of the loop of close()
Idle == [at |-> "idle", i |-> 0]

Init ==
    /\ \E snapshot \in WalletSnapshots :
          /\ WALLETS = add_wallet(snapshot, node_wallet_index, 0)
          /\ disk = [blockchain |-> [length |-> 1, blocks |-> <<Genesis>>],
                     wallets |-> snapshot]
    /\ CHAIN = [length |-> 1, blocks |-> <<Genesis>>]
    /\ BLOCK = NewBlock(CHAIN.length, hash(last_block(CHAIN.blocks)), Now(CHAIN))
    /\ aliased = {}
    /\ response = Response("start", 0, 0)
    /\ mining = Idle

-----------------------------------------------------------------------------
(* Handlers *)

\* POST /api/wallets
create_wallet(username, value) ==
    /\ WALLETS' = add_wallet(WALLETS, UsernameIndex(username), value)
    /\ disk' = [disk EXCEPT !.wallets = WALLETS']
    /\ response' = Response("wallet", 200, 0)
    /\ UNCHANGED <<CHAIN, BLOCK, aliased, mining>>

wallet ==
    \E username \in Usernames, value \in Values : create_wallet(username, value)

\* POST /api/chain/blocks/transactions with body `transaction`, while the
\* pending block holds fewer than `limit` transactions
submit_request(transaction, limit) ==
    /\ Len(BLOCK.transactions) < limit
    /\ LET stored == [transaction EXCEPT !.index = BLOCK.length]
           b == [BLOCK EXCEPT !.transactions = Append(@, stored),
                              !.length = @ + 1]
       IN  /\ BLOCK' = b
           /\ CHAIN' = [CHAIN EXCEPT !.blocks = Shared(@, aliased, b)]
           /\ response' = Response("transactions", 200, stored.index)
    /\ UNCHANGED <<WALLETS, aliased, disk, mining>>

\* a submission that leaves room for the reward transaction
submit(transaction) == submit_request(transaction, MaxBlockTxs - 1)

transactions ==
    \E transfer \in Transfers, index \in CallerIndexes :
        submit(Transaction(transfer[3], index, transfer[2], transfer[1]))

\* CHAIN.blocks[id] of a Python list of n items: the position (from 1) of
\* the item, 0 when it raises IndexError
ListItem(n, id) ==
    IF 0 <= id /\ id < n THEN id + 1
    ELSE IF id < 0 /\ 0 - n <= id THEN n + id + 1
    ELSE 0

\* the test of lines 183 and 206
NotFound(id, blocks) == id > Len(blocks)

\* the body of blocks_by_id and of transactions_by_id
BlockAccessor(op, id) ==
    /\ response' =
          IF NotFound(id, CHAIN.blocks) THEN Response(op, 404, 0)
          ELSE IF ListItem(Len(CHAIN.blocks), id) = 0 THEN Response(op, 500, 0)
          ELSE Response(op, 200, ListItem(Len(CHAIN.blocks), id))
    /\ UNCHANGED <<WALLETS, CHAIN, BLOCK, aliased, disk, mining>>

\* GET /api/chain/blocks/{id}
blocks_by_id ==
    \E id \in BlockIds(Len(CHAIN.blocks)) : BlockAccessor("blocks_by_id", id)

\* GET /api/chain/blocks/{id}/transactions
transactions_by_id ==
    \E id \in BlockIds(Len(CHAIN.blocks)) : BlockAccessor("transactions_by_id", id)

\* line 217 without its test
no_transactions_unchecked(b) == FALSE

\* the test of line 217
no_transactions(b) == b.transactions = <<>>

\* GET /api/mine: the body of mine(), run as one step on a chain of fewer than `limit` blocks
mine_request(limit) ==
    IF no_transactions(BLOCK)
    THEN /\ response' = Response("mine", 204, 0)
         /\ UNCHANGED <<WALLETS, CHAIN, BLOCK, aliased, disk>>
    ELSE /\ Len(BLOCK.transactions) < MaxBlockTxs
         /\ Len(CHAIN.blocks) < limit
         /\ LET tax == Transaction(1, BLOCK.length, node_wallet_index, "none")
                closed == close(Append(BLOCK.transactions, tax), WALLETS, 1)
                b1 == [BLOCK EXCEPT !.transactions = closed.txs]
                blocks1 == Shared(CHAIN.blocks, aliased, b1)
                b2 == [b1 EXCEPT !.proof = proof_of_work(blocks1)]
                blocks2 == Append(Shared(CHAIN.blocks, aliased, b2), b2)
                chain2 == [length |-> CHAIN.length + 1, blocks |-> blocks2]
            IN  IF closed.raised
                THEN /\ WALLETS' = closed.ws
                     /\ BLOCK' = b1
                     /\ CHAIN' = [CHAIN EXCEPT !.blocks = blocks1]
                     /\ response' = Response("mine", 500, 0)
                     /\ UNCHANGED <<aliased, disk>>
                ELSE /\ b2.proof # None
                     /\ WALLETS' = closed.ws
                     /\ CHAIN' = chain2
                     /\ IF ~validate_chain(blocks2)
                        THEN /\ BLOCK' = b2
                             /\ aliased' = aliased \cup {Len(blocks2)}
                             /\ response' = Response("mine", 599, 0)
                             /\ UNCHANGED disk
                        ELSE /\ disk' = [blockchain |-> chain2, wallets |-> closed.ws]
                             /\ BLOCK' = NewBlock(chain2.length, hash(b2), Now(chain2))
                             /\ aliased' = {}
                             /\ response' = Response("mine", 200, Len(blocks2))

mine ==
    /\ mining = Idle
    /\ mine_request(MaxChain)
    /\ UNCHANGED mining

Next ==
    \/ wallet
    \/ transactions
    \/ blocks_by_id
    \/ transactions_by_id
    \/ mine

Spec == Init /\ [][Next]_vars

-----------------------------------------------------------------------------
(* The methods on their own: proof_of_work, validate_chain and commit applied
   once to chains, ledgers and transactions the classes can hold *)

\* a first block as blockchain.json may give it
GenesisLike(proof, timestamp) ==
    [Genesis EXCEPT !.proof = proof, !.timestamp = timestamp]

UnitProofs == {None, <<100>>} \cup { <<n>> : n \in 0..5 }

UnitTimestamps == 0..3

\* the block mine() appends after `prev`: one transfer and the reward, both executed
Sealed(prev, index) ==
    [index |-> index, length |-> 1, previous_hash |-> hash(prev),
     proof |-> proof_of_work(<<prev>>), timestamp |-> index,
     transactions |->
        << [Transaction(3, 0, "B", "A") EXCEPT !.debits = 1, !.credits = 1],
           [Transaction(1, 1, node_wallet_index, "none")
               EXCEPT !.debits = 1, !.credits = 1] >>]

\* a stored block with another proof, with another previous_hash
OtherProof(b) == [b EXCEPT !.proof = <<b.proof[1] + 1>>]
OtherHash(b) == [b EXCEPT !.previous_hash = Genesis.previous_hash]

UnitChains ==
    LET b1 == Sealed(Genesis, 1)
        b2 == Sealed(b1, 2)
        g  == GenesisLike(None, 0)
    IN  { <<>>, <<Genesis, b1>>, <<Genesis, b1, b2>>, <<g, Sealed(g, 1)>>,
          <<Genesis, OtherProof(b1)>>, <<Genesis, OtherHash(b1)>>,
          <<Genesis, b1, OtherProof(b2)>>, <<Genesis, b1, OtherHash(b2)>>,
          <<Genesis, OtherProof(b1), b2>>, <<Genesis, OtherHash(b1), b2>> }
        \cup { <<GenesisLike(proof, timestamp)>> :
                    proof \in UnitProofs, timestamp \in UnitTimestamps }

UnitBalances == {0, 2, 500}

UnitLedgers ==
    { [length |-> 3, wallets |-> [id \in {"A", "B", "node"} |->
          IF id = "A" THEN a ELSE IF id = "B" THEN b ELSE 0]] :
      a \in UnitBalances, b \in UnitBalances }

UnitTransactions ==
    { Transaction(amount, 0, recipient, sender) :
        amount \in {1, 200}, recipient \in {"A", "B", "X"},
        sender \in {"A", "B", "X"} }

\* one chain with a fixed ledger, or one ledger and transaction with a fixed chain
InitUnit ==
    /\ \E blocks \in UnitChains, ws \in UnitLedgers, t \in UnitTransactions :
          /\ \/ ws.wallets = [id \in {"A", "B", "node"} |-> 0] /\ t.amount = 1
                   /\ t.sender = "A" /\ t.recipient = "B"
             \/ blocks = <<Genesis>>
          /\ CHAIN = [length |-> Len(blocks), blocks |-> blocks]
          /\ WALLETS = ws
          /\ BLOCK = [NewBlock(Len(blocks), Genesis.previous_hash, 0)
                         EXCEPT !.transactions = <<t>>, !.length = 1]
          /\ disk = [blockchain |-> CHAIN, wallets |-> ws]
    /\ aliased = {}
    /\ response = Response("start", 0, 0)
    /\ mining = Idle

\* CHAIN.proof_of_work(): last_block raises on a chain without blocks, and
\* a search that runs past MaxProof has not returned
unit_proof_of_work ==
    /\ response.op = "start"
    /\ IF CHAIN.blocks = <<>>
       THEN response' = Response("proof_of_work", 500, 0)
       ELSE /\ proof_of_work(CHAIN.blocks) # None
            /\ response' =
                  Response("proof_of_work", 200, proof_of_work(CHAIN.blocks)[1])
    /\ UNCHANGED <<WALLETS, CHAIN, BLOCK, aliased, disk, mining>>

\* CHAIN.validate_chain(): item 1 for True, 0 for False
unit_validate_chain ==
    /\ response.op = "start"
    /\ response' =
          IF validate_chain_raises(CHAIN.blocks)
          THEN Response("validate_chain", 500, 0)
          ELSE Response("validate_chain", 200,
                        IF validate_chain(CHAIN.blocks) THEN 1 ELSE 0)
    /\ UNCHANGED <<WALLETS, CHAIN, BLOCK, aliased, disk, mining>>

\* BLOCK.transactions[0].commit()
unit_commit ==
    /\ response.op = "start"
    /\ LET done == commit(BLOCK.transactions[1], WALLETS)
       IN  /\ WALLETS' = done.ws
           /\ BLOCK' = [BLOCK EXCEPT !.transactions = <<done.t>>]
           /\ response' = Response("commit", IF done.raised THEN 500 ELSE 200, 0)
    /\ UNCHANGED <<CHAIN, aliased, disk, mining>>

NextUnit ==
    \/ unit_proof_of_work
    \/ unit_validate_chain
    \/ unit_commit

SpecUnit == InitUnit /\ [][NextUnit]_vars

-----------------------------------------------------------------------------
(* Tampering: one stored block of the chain that mine() built gets another
   proof or previous_hash, and validate_chain() audits the result *)

\* `blocks` with the field of block k replaced by value
Tampered(blocks, k, field, value) ==
    [blocks EXCEPT ![k] = IF field = "proof" THEN [@ EXCEPT !.proof = value]
                          ELSE [@ EXCEPT !.previous_hash = value]]

TamperProofs == {None} \cup { <<q>> : q \in 0..MaxProof }

TamperHashes(blocks) ==
    {Genesis.previous_hash} \cup { hash(blocks[j]) : j \in 1..Len(blocks) }

\* the audit of a copy of the chain with block k changed: item k, status 1
\* for True, and the change that was made
tamper(k, field, value) ==
    /\ response.op # "tamper"
    /\ k \in 1..Len(CHAIN.blocks)
    /\ value # CHAIN.blocks[k][field]
    /\ response' =
          [op |-> "tamper",
           status |-> IF validate_chain(Tampered(CHAIN.blocks, k, field, value))
                      THEN 1 ELSE 0,
           item |-> k, field |-> field, value |-> value]
    /\ UNCHANGED <<WALLETS, CHAIN, BLOCK, aliased, disk, mining>>

tamper_proof ==
    \E k \in 1..Len(CHAIN.blocks), value \in TamperProofs :
        tamper(k, "proof", value)

tamper_previous_hash ==
    \E k \in 1..Len(CHAIN.blocks), value \in TamperHashes(CHAIN.blocks) :
        tamper(k, "previous_hash", value)

\* the chain is built, then one change is audited and the run ends
NextTamper ==
    \/ response.op # "tamper" /\ transactions
    \/ response.op # "tamper" /\ mine
    \/ tamper_proof
    \/ tamper_previous_hash

SpecTamper == Init /\ [][NextTamper]_vars

-----------------------------------------------------------------------------
(* Concurrent requests: the handlers are plain `def` functions, which FastAPI
   runs on worker threads, so a submission can run between two statements of
   a running mine().  One mine() request advances statement by statement;
   submissions are taken whole. *)

At(label) == mining.at = label

Goto(label) == mining' = [at |-> label, i |-> 0]

\* lines 216-228: the test for an empty block, the reward appended
mine_begin ==
    /\ At("idle")
    /\ IF no_transactions(BLOCK)
       THEN /\ response' = Response("mine", 204, 0)
            /\ UNCHANGED <<BLOCK, CHAIN, mining>>
       ELSE /\ Len(BLOCK.transactions) < MaxBlockTxs
            /\ Len(CHAIN.blocks) < MaxChain
            /\ LET tax == Transaction(1, BLOCK.length, node_wallet_index, "none")
                   b == [BLOCK EXCEPT !.transactions = Append(@, tax)]
               IN  /\ BLOCK' = b
                   /\ CHAIN' = [CHAIN EXCEPT !.blocks = Shared(@, aliased, b)]
            /\ mining' = [at |-> "close", i |-> 1]
            /\ UNCHANGED response
    /\ UNCHANGED <<WALLETS, aliased, disk>>

\* line 230: one turn of the loop of Block.close() (lines 68-69), which looks
\* at the length of the list again on every turn
mine_close ==
    /\ At("close")
    /\ IF mining.i > Len(BLOCK.transactions)
       THEN /\ Goto("proof")
            /\ UNCHANGED <<WALLETS, BLOCK, CHAIN, response>>
       ELSE LET done == commit(BLOCK.transactions[mining.i], WALLETS)
                b == [BLOCK EXCEPT !.transactions[mining.i] = done.t]
            IN  /\ WALLETS' = done.ws
                /\ BLOCK' = b
                /\ CHAIN' = [CHAIN EXCEPT !.blocks = Shared(@, aliased, b)]
                /\ IF done.raised
                   THEN /\ response' = Response("mine", 500, 0)
                        /\ Goto("idle")
                   ELSE /\ mining' = [mining EXCEPT !.i = @ + 1]
                        /\ UNCHANGED response
    /\ UNCHANGED <<aliased, disk>>

\* line 231
mine_proof ==
    /\ At("proof")
    /\ proof_of_work(CHAIN.blocks) # None
    /\ LET b == [BLOCK EXCEPT !.proof = proof_of_work(CHAIN.blocks)]
       IN  /\ BLOCK' = b
           /\ CHAIN' = [CHAIN EXCEPT !.blocks = Shared(@, aliased, b)]
    /\ Goto("append")
    /\ UNCHANGED <<WALLETS, aliased, disk, response>>

\* lines 232-233: the chain now holds the object BLOCK
mine_append ==
    /\ At("append")
    /\ CHAIN' = [length |-> CHAIN.length + 1, blocks |-> Append(CHAIN.blocks, BLOCK)]
    /\ aliased' = aliased \cup {Len(CHAIN.blocks) + 1}
    /\ Goto("audit")
    /\ UNCHANGED <<WALLETS, BLOCK, disk, response>>

\* lines 235-236
mine_audit ==
    /\ At("audit")
    /\ IF ~validate_chain(CHAIN.blocks)
       THEN /\ response' = Response("mine", 599, 0)
            /\ Goto("idle")
       ELSE /\ Goto("save")
            /\ UNCHANGED response
    /\ UNCHANGED <<WALLETS, CHAIN, BLOCK, aliased, disk>>

\* lines 238-242
mine_save ==
    /\ At("save")
    /\ disk' = [blockchain |-> CHAIN, wallets |-> WALLETS]
    /\ Goto("replace")
    /\ UNCHANGED <<WALLETS, CHAIN, BLOCK, aliased, response>>

\* lines 244-252
mine_replace ==
    /\ At("replace")
    /\ BLOCK' = NewBlock(CHAIN.length, hash(BLOCK), Now(CHAIN))
    /\ aliased' = {}
    /\ response' = Response("mine", 200, Len(CHAIN.blocks))
    /\ Goto("idle")
    /\ UNCHANGED <<WALLETS, CHAIN, disk>>

\* POST /api/chain/blocks/transactions at any moment
transactions_any_time ==
    \E transfer \in Transfers, index \in CallerIndexes :
        submit_request(Transaction(transfer[3], index, transfer[2], transfer[1]),
                       MaxBlockTxs)

NextConcurrent ==
    \/ transactions_any_time
    \/ mine_begin
    \/ mine_close
    \/ mine_proof
    \/ mine_append
    \/ mine_audit
    \/ mine_save
    \/ mine_replace

SpecConcurrent == Init /\ [][NextConcurrent]_vars

-----------------------------------------------------------------------------
(* Startup from any snapshot: blockchain.json is parsed at line 128 and never
   audited, so the service also starts on a chain that validate_chain()
   rejects *)

\* two stored blocks, the second with a previous_hash or a proof that does
\* not match the first
CorruptChains ==
    { <<Genesis, OtherHash(Sealed(Genesis, 1))>>,
      <<Genesis, OtherProof(Sealed(Genesis, 1))>> }

LoadedChains == { <<Genesis>> } \cup CorruptChains

InitLoaded ==
    /\ \E snapshot \in WalletSnapshots, blocks \in LoadedChains :
          /\ WALLETS = add_wallet(snapshot, node_wallet_index, 0)
          /\ CHAIN = [length |-> Len(blocks), blocks |-> blocks]
          /\ disk = [blockchain |-> CHAIN, wallets |-> snapshot]
    /\ BLOCK = NewBlock(CHAIN.length, hash(last_block(CHAIN.blocks)), Now(CHAIN))
    /\ aliased = {}
    /\ response = Response("start", 0, 0)
    /\ mining = Idle

\* GET /api/mine on a chain that may have started with two blocks
mine_loaded ==
    /\ mining = Idle
    /\ mine_request(MaxChain + 2)
    /\ UNCHANGED mining

NextLoaded ==
    \/ transactions
    \/ mine_loaded

SpecLoaded == InitLoaded /\ [][NextLoaded]_vars

-----------------------------------------------------------------------------
(* Properties *)

RECURSIVE Sum(_, _)
Sum(f, S) ==
    IF S = {} THEN 0
    ELSE LET x == CHOOSE y \in S : TRUE IN f[x] + Sum(f, S \ {x})

\* the total of all balances of a ledger
Total(ws) == Sum(ws.wallets, DOMAIN ws.wallets)

Known(ws, id) == id \in DOMAIN ws.wallets

\* every transaction object the program holds
AllTransactions ==
    { BLOCK.transactions[i] : i \in 1..Len(BLOCK.transactions) }
    \cup UNION { { CHAIN.blocks[k].transactions[i] :
                     i \in 1..Len(CHAIN.blocks[k].transactions) } :
                 k \in 1..Len(CHAIN.blocks) }

\* a transaction without the execution counts
Plain(t) == [amount |-> t.amount, index |-> t.index,
             recipient |-> t.recipient, sender |-> t.sender]
PlainAll(txs) == [i \in 1..Len(txs) |-> Plain(txs[i])]

C2_AtMostOnce ==
    \A t \in AllTransactions : t.debits <= 1 /\ t.credits <= 1

\* C3: commit() of a transaction whose sender or recipient is not in the
\* ledger raises and changes no balance, and no transaction is ever debited
\* without being credited.
C3_CommitAtomic ==
    /\ \A t \in AllTransactions : t.debits = t.credits
    /\ \A i \in 1..Len(BLOCK.transactions) :
          LET t == BLOCK.transactions[i]
          IN  ~(Known(WALLETS, t.sender) /\ Known(WALLETS, t.recipient))
                 => /\ commit(t, WALLETS).raised
                    /\ commit(t, WALLETS).ws = WALLETS

C5_MineSeals ==
    [][(mine /\ BLOCK.transactions # <<>>)
          => /\ Len(CHAIN'.blocks) = Len(CHAIN.blocks) + 1
             /\ SubSeq(CHAIN'.blocks, 1, Len(CHAIN.blocks)) = CHAIN.blocks
             /\ LET last == last_block(CHAIN'.blocks)
                IN  /\ last.proof # None
                    /\ last.index = BLOCK.index
                    /\ last.previous_hash = BLOCK.previous_hash
                    /\ last.timestamp = BLOCK.timestamp
                    /\ SubSeq(PlainAll(last.transactions), 1, Len(BLOCK.transactions))
                          = PlainAll(BLOCK.transactions)
             /\ BLOCK'.transactions = <<>>
             /\ BLOCK'.proof = None
             /\ BLOCK'.index = Len(CHAIN'.blocks)
             /\ BLOCK'.previous_hash = hash(last_block(CHAIN'.blocks))]_vars

\* C6: with no wallet 'none' (and every pending transaction naming existing
\* wallets), mine() on a non-empty pending block credits the node wallet by 1,
\* debits no wallet for the reward, raises nothing and seals the block.
C6_RewardCredited ==
    [][(/\ mine
        /\ BLOCK.transactions # <<>>
        /\ ~Known(WALLETS, "none")
        /\ \A i \in 1..Len(BLOCK.transactions) :
              /\ Known(WALLETS, BLOCK.transactions[i].sender)
              /\ Known(WALLETS, BLOCK.transactions[i].recipient))
          => /\ response'.status = 200
             /\ WALLETS'.wallets[node_wallet_index]
                   = WALLETS.wallets[node_wallet_index] + 1
             /\ Total(WALLETS') = Total(WALLETS) + 1
             /\ Len(CHAIN'.blocks) = Len(CHAIN.blocks) + 1]_vars

\* C7: a mine() that ends in an error leaves every balance and the chain as
\* they were.
C7_FailureCommitsNothing ==
    [][(mine /\ response'.status # 200)
          => WALLETS' = WALLETS /\ CHAIN' = CHAIN]_vars

\* C8: mine() on a pending block without transactions answers with the
\* empty-block status 204 and leaves the chain, the ledger and the pending
\* block unchanged.
C8_EmptyBlockRejected ==
    [][(response'.op = "mine" /\ BLOCK.transactions = <<>>)
          => /\ response'.status = 204
             /\ UNCHANGED <<CHAIN, WALLETS, BLOCK, disk>>]_vars

\* mine() has just been refused on an empty pending block
C8_Witness ==
    /\ response.op = "mine" /\ response.status = 204
    /\ BLOCK.transactions = <<>>

\* C9: a submission whose sender or recipient is no wallet of the ledger is
\* rejected and leaves the pending block's transactions and length unchanged.
C9_UnknownWalletRejected ==
    [][\A transfer \in Transfers, index \in CallerIndexes :
          (/\ submit(Transaction(transfer[3], index, transfer[2], transfer[1]))
           /\ ~(Known(WALLETS, transfer[1]) /\ Known(WALLETS, transfer[2])))
             => /\ response'.status # 200
                /\ BLOCK'.transactions = BLOCK.transactions
                /\ BLOCK'.length = BLOCK.length]_vars

\* C10: blocks_by_id(id) and transactions_by_id(id) answer 404 and return no
\* block for every id outside 0..len(CHAIN.blocks)-1.
C10_OutOfRangeNotFound ==
    [][\A op \in {"blocks_by_id", "transactions_by_id"},
          id \in BlockIds(Len(CHAIN.blocks)) :
          (BlockAccessor(op, id) /\ ~(0 <= id /\ id < Len(CHAIN.blocks)))
             => response'.status = 404 /\ response'.item = 0]_vars

\* C11: the value proof_of_work() returns passes validate_proof against the
\* last block's proof and hash, and no smaller non-negative integer does.
C11_LeastProof ==
    (response.op = "proof_of_work" /\ response.status = 200) =>
        LET last == last_block(CHAIN.blocks)
        IN  /\ validate_proof(last.proof, <<response.item>>, hash(last))
            /\ \A q \in 0..(response.item - 1) :
                   ~validate_proof(last.proof, <<q>>, hash(last))

\* a search that went past rejected values before it returned
C11_Witness ==
    /\ response.op = "proof_of_work"
    /\ response.status = 200
    /\ response.item > 2

\* C12: after a single change of the proof or the previous_hash of one block
\* of a chain that mine() extended, validate_chain() returns false.
C12_TamperDetected ==
    (response.op = "tamper" /\ Len(CHAIN.blocks) >= 2) => response.status = 0

\* what validate_chain() can see of a change of block k: a block before the
\* last one no longer has the hash its successor stores; the last block is
\* only compared with its predecessor
Detectable(blocks, k, field, value) ==
    IF k < Len(blocks) THEN TRUE
    ELSE IF k = 1 THEN FALSE
    ELSE IF field = "previous_hash" THEN TRUE
    ELSE ~validate_proof(blocks[k - 1].proof, value, hash(blocks[k - 1]))

\* C12, amended: validate_chain() returns false after the change exactly when
\* the changed block is not the last one, or it is the last of two or more
\* blocks and either its previous_hash was changed or its new proof fails
\* validate_proof against its predecessor.
C12_TamperDetectedUnlessTail ==
    response.op = "tamper" =>
        (response.status = 0
            <=> Detectable(CHAIN.blocks, response.item, response.field,
                           response.value))

\* a changed last block of a mined chain that the audit rejects
C12_Witness ==
    /\ response.op = "tamper"
    /\ response.status = 0
    /\ Len(CHAIN.blocks) >= 2
    /\ response.item = Len(CHAIN.blocks)

\* C13: add_wallet with an id that is already present changes nothing of the
\* ledger (no balance, not the set of wallets, not the length counter),
\* whatever value is passed; and POST /api/wallets never overwrites and never
\* removes a stored wallet.
C13_AddWalletIdempotent ==
    [][\A username \in Usernames, value \in Values :
          create_wallet(username, value) =>
            /\ Known(WALLETS, UsernameIndex(username)) => WALLETS' = WALLETS
            /\ \A id \in DOMAIN WALLETS.wallets :
                  /\ Known(WALLETS', id)
                  /\ WALLETS'.wallets[id] = WALLETS.wallets[id]]_vars

\* POST /api/wallets for alice, whose wallet A holds another value than the
\* one passed, before any wallet X was added
C13_Witness ==
    /\ response.op = "wallet"
    /\ ~Known(WALLETS, "X")
    /\ \A value \in Values : WALLETS.wallets["A"] # value

\* the two tests of validate_chain() on block i (from 2) and the one before it
PairPasses(blocks, i) ==
    /\ blocks[i].previous_hash = hash(blocks[i - 1])
    /\ validate_proof(blocks[i - 1].proof, blocks[i].proof, hash(blocks[i - 1]))

\* C14: validate_chain() never raises; it returns true when the chain has 0
\* or 1 blocks or every adjacent pair passes both tests, and false when some
\* adjacent pair fails one of them.
C14_ValidateChainTotal ==
    response.op = "validate_chain" =>
        /\ response.status = 200
        /\ response.item = 1 <=>
              \/ Len(CHAIN.blocks) <= 1
              \/ \A i \in 2..Len(CHAIN.blocks) : PairPasses(CHAIN.blocks, i)

\* a transaction of a block of the chain that mine() appended was executed
\* once: debited once and credited once
SealedCommittedOnce ==
    \A k \in 2..Len(CHAIN.blocks) :
        \A i \in 1..Len(CHAIN.blocks[k].transactions) :
            LET t == CHAIN.blocks[k].transactions[i]
            IN  t.debits = 1 /\ t.credits = 1

\* C15: when submissions run between the statements of a running mine(),
\* every transaction of a block of the chain has been committed exactly once
\* (none enters a block after its sealing started), and no transaction the
\* program holds is lost by a step.
C15_SealingExcludesSubmissions ==
    /\ []SealedCommittedOnce
    /\ [][{ Plain(t) : t \in AllTransactions }
             \subseteq { Plain(t) : t \in AllTransactions' }]_vars

\* the transaction at position i (from 0) of block b carries index i
IndexIsPosition(b) ==
    \A i \in 1..Len(b.transactions) : b.transactions[i].index = i - 1

\* C16: in the pending block and in every block that mine() sealed, the
\* transaction at position i (from 0) has index i, whatever index the caller
\* sent, the reward transaction included.
C16_IndexIsPosition ==
    /\ IndexIsPosition(BLOCK)
    /\ \A k \in 2..Len(CHAIN.blocks) : IndexIsPosition(CHAIN.blocks[k])

\* C20: the length field of the pending block and of every block that mine()
\* sealed equals the number of its transactions, the reward included.
C20_LengthCountsTransactions ==
    /\ BLOCK.length = Len(BLOCK.transactions)
    /\ \A k \in 2..Len(CHAIN.blocks) :
          CHAIN.blocks[k].length = Len(CHAIN.blocks[k].transactions)

\* C17: mine() writes the snapshots only when it has appended the block and
\* the whole chain passes the audit, and then it writes the chain and the
\* ledger as they are; when the chain with the appended block fails the
\* audit, mine() answers 599, writes nothing and keeps the pending block.
C17_AuditGatesPersistence ==
    [][response'.op = "mine" =>
        LET appended == Len(CHAIN'.blocks) = Len(CHAIN.blocks) + 1
            passes == \A i \in 2..Len(CHAIN'.blocks) : PairPasses(CHAIN'.blocks, i)
        IN  /\ disk' # disk =>
                  /\ appended /\ passes
                  /\ disk' = [blockchain |-> CHAIN', wallets |-> WALLETS']
            /\ (appended /\ ~passes) =>
                  /\ response'.status = 599
                  /\ disk' = disk
                  /\ BLOCK'.index = BLOCK.index
                  /\ BLOCK' = last_block(CHAIN'.blocks)]_vars

\* a mine() that answered 599: the chain is one block longer than the
\* snapshot on disk and the pending block is the one appended
C17_Witness ==
    /\ response.op = "mine"
    /\ response.status = 599
    /\ Len(disk.blockchain.blocks) < Len(CHAIN.blocks)
    /\ BLOCK = last_block(CHAIN.blocks)

\* C18: the pending block has no proof in every reachable state, every block
\* that mine() appended has one, and a proof that is set never changes.
C18_ProofSetOnce ==
    /\ [](/\ BLOCK.proof = None
          /\ \A k \in 2..Len(CHAIN.blocks) : CHAIN.blocks[k].proof # None)
    /\ [][\A k \in 1..Len(CHAIN.blocks) :
            CHAIN.blocks[k].proof # None =>
                CHAIN'.blocks[k].proof = CHAIN.blocks[k].proof]_vars

\* C19: commit() of a transaction whose two wallets exist does not raise,
\* takes the amount from the sender and adds it to the recipient (500 and 0
\* become 300 and 200 for amount 200), leaves a wallet that is both sender
\* and recipient at its balance, and leaves every other wallet, the set of
\* wallets and the length counter as they were; no balance is tested.
C19_CommitMovesAmount ==
    [][\A t \in UnitTransactions :
          (/\ unit_commit
           /\ Plain(BLOCK.transactions[1]) = Plain(t)
           /\ Known(WALLETS, t.sender)
           /\ Known(WALLETS, t.recipient)) =>
            /\ response'.status = 200
            /\ DOMAIN WALLETS'.wallets = DOMAIN WALLETS.wallets
            /\ WALLETS'.length = WALLETS.length
            /\ \A id \in DOMAIN WALLETS.wallets :
                  WALLETS'.wallets[id] =
                     WALLETS.wallets[id]
                       - (IF id = t.sender THEN t.amount ELSE 0)
                       + (IF id = t.recipient THEN t.amount ELSE 0)
            /\ (t.sender = "A" /\ t.recipient = "B" /\ t.amount = 200
                    /\ WALLETS.wallets["A"] = 500 /\ WALLETS.wallets["B"] = 0)
                  => (WALLETS'.wallets["A"] = 300 /\ WALLETS'.wallets["B"] = 200)]_vars

\* a commit() that left its sender with a negative balance
C19_Witness ==
    /\ response.op = "commit"
    /\ response.status = 200
    /\ BLOCK.transactions[1].sender = "A"
    /\ BLOCK.transactions[1].recipient = "B"
    /\ WALLETS.wallets["A"] < 0

====
